---------------------------- MODULE Spec2Model ----------------------------
(***************************************************************************)
(* systemd-wake: scheduling a Command through systemd-run, and querying or *)
(* cancelling it through systemctl.                                        *)
(*                                                                         *)
(* Text is modelled as it is on the wire: a sequence of bytes (0..255).    *)
(* A Rust &str / String is a byte sequence that is valid UTF-8; a char of  *)
(* a unit name is a Unicode scalar value.  Option<T> is a sequence of      *)
(* length 0 (None) or 1 (Some).                                            *)
(***************************************************************************)
EXTENDS Integers, Sequences, FiniteSets, TLC

VARIABLES
    raw,        \* TimerName::new : the raw string handed to the validator
    nameRes,    \* TimerName::new : Option<Result<TimerName,TimerNameError>>
    cfg,        \* codec : the CommandConfig a caller starts from
    token,      \* codec : Option<Result<String,CommandConfigError>> of encode
    back,       \* codec : Option<Result<Command,CommandConfigError>> of decode
    units,      \* the user service manager's unit namespace (external)
    hostOk,     \* whether systemd-run / systemctl can be spawned at all
    pc,         \* position of the calling thread inside query_registration
    cur,        \* the query_registration call in progress
    last,       \* the last public operation that returned, and its outcome
    reg         \* per unit: the registration register() made and that is
                \* still pending (neither fired nor stopped)

vars == <<raw, nameRes, cfg, token, back, units, hostOk, pc, cur, last, reg>>

nameVars == <<raw, nameRes>>
codecVars == <<cfg, token, back>>
gatewayVars == <<units, hostOk, pc, cur, last, reg>>

None == <<>>
Some(x) == <<x>>

\* Sequences over S of length at most n.
SeqUpTo(S, n) == UNION {[1..k -> S] : k \in 0..n}

RECURSIVE Concat(_)
Concat(ss) == IF ss = <<>> THEN <<>> ELSE Head(ss) \o Concat(Tail(ss))

\* s[i..] starts with the literal p.
StartsWithAt(s, i, p) ==
    /\ i + Len(p) - 1 <= Len(s)
    /\ \A k \in 1..Len(p) : s[i + k - 1] = p[k]

\* str::strip_prefix : Option<rest>.
strip_prefix(s, p) ==
    IF StartsWithAt(s, 1, p) THEN Some(SubSeq(s, Len(p) + 1, Len(s))) ELSE None

\* Index of the first occurrence of the literal p in s, 0 when absent.
Find(s, p) ==
    LET hits == {i \in 1..(Len(s) + 1) : StartsWithAt(s, i, p)}
    IN IF hits = {} THEN 0 ELSE CHOOSE i \in hits : \A j \in hits : i <= j

\* str::split_once(pattern) : Option<(before, after)>.
split_once(s, p) ==
    LET i == Find(s, p)
    IN IF i = 0 THEN None
       ELSE Some(<<SubSeq(s, 1, i - 1), SubSeq(s, i + Len(p), Len(s))>>)

(***************************************************************************)
(* char classes of the Rust standard library                               *)
(***************************************************************************)
\* char::is_whitespace : the Unicode White_Space property.
is_whitespace(c) ==
    \/ c \in 9..13
    \/ c \in {32, 133, 160, 5760, 8232, 8233, 8239, 8287, 12288}
    \/ c \in 8192..8202

\* str::is_ascii on the chars of a string.
is_ascii(s) == \A i \in DOMAIN s : s[i] < 128

\* str::trim_end on ASCII text (the service manager's output).
RECURSIVE trim_end(_)
trim_end(s) ==
    IF s # <<>> /\ is_whitespace(s[Len(s)])
    THEN trim_end(SubSeq(s, 1, Len(s) - 1))
    ELSE s

(***************************************************************************)
(* TimerName::new (lib.rs)                                                 *)
(***************************************************************************)
TimerNameOk(name) == [ok |-> TRUE, kind |-> "Ok", name |-> name]
TimerNameErr(kind) == [ok |-> FALSE, kind |-> kind, name |-> <<>>]

TimerName_new_NoPrecedence(name) ==
    IF \E i \in DOMAIN name : is_whitespace(name[i])
    THEN TimerNameErr("ContainsWhitespace")
    ELSE IF ~is_ascii(name) THEN TimerNameErr("NotAscii")
    ELSE TimerNameOk(name)

TimerName_new_AsciiWhitespaceOnly(name) ==
    IF ~is_ascii(name) THEN TimerNameErr("NotAscii")
    ELSE IF \E i \in DOMAIN name : name[i] \in {9, 10, 12, 13, 32}
    THEN TimerNameErr("ContainsWhitespace")
    ELSE TimerNameOk(name)

TimerName_new(name) ==
    IF ~is_ascii(name) THEN TimerNameErr("NotAscii")
    ELSE IF \E i \in DOMAIN name : is_whitespace(name[i])
    THEN TimerNameErr("ContainsWhitespace")
    ELSE TimerNameOk(name)

\* The chars raw names are drawn from: SOH (a control character), TAB, VT,
\* SPACE, '-', 'a', DEL, NBSP (whitespace outside ASCII), e-acute.
NameChars == {1, 9, 11, 32, 45, 97, 127, 160, 233}
MaxNameLen == 2
RawNames == SeqUpTo(NameChars, MaxNameLen)

(***************************************************************************)
(* String::from_utf8 / Path::to_str : UTF-8 well-formedness                *)
(***************************************************************************)
IsCont(s, i) == i \in 1..Len(s) /\ s[i] \in 128..191

\* The length of the sequence a lead byte opens, 0 for a byte that opens none.
Utf8Width(b) ==
    IF b < 128 THEN 1
    ELSE IF b \in 194..223 THEN 2
    ELSE IF b \in 224..239 THEN 3
    ELSE IF b \in 240..244 THEN 4
    ELSE 0

\* Every byte opens a well-formed sequence or continues one: each lead byte
\* is followed by its continuation bytes (the second one in the range that
\* excludes overlong forms, surrogates and code points above U+10FFFF), and
\* each continuation byte belongs to the lead byte before it.
Utf8Valid(s) ==
    \A i \in 1..Len(s) :
        LET b == s[i] IN
        IF b \in 128..191
        THEN \E k \in 1..3 :
                /\ i - k >= 1
                /\ Utf8Width(s[i - k]) > k
                /\ \A j \in (i - k + 1)..(i - 1) : IsCont(s, j)
        ELSE /\ Utf8Width(b) > 0
             /\ \A k \in 1..(Utf8Width(b) - 1) : IsCont(s, i + k)
             /\ (b = 224 => s[i + 1] >= 160)
             /\ (b = 237 => s[i + 1] <= 159)
             /\ (b = 240 => s[i + 1] >= 144)
             /\ (b = 244 => s[i + 1] <= 143)

(***************************************************************************)
(* hex::encode / hex::decode                                               *)
(***************************************************************************)
\* "0123456789abcdef"
HexDigits == <<48, 49, 50, 51, 52, 53, 54, 55, 56, 57, 97, 98, 99, 100, 101, 102>>

HexVal(c) ==
    IF c \in 48..57 THEN c - 48
    ELSE IF c \in 97..102 THEN c - 87
    ELSE IF c \in 65..70 THEN c - 55
    ELSE -1

\* Two lowercase digits per byte, the high nibble first.
hex_encode(bytes) ==
    [k \in 1..(2 * Len(bytes)) |->
        IF k % 2 = 1 THEN HexDigits[(bytes[(k + 1) \div 2] \div 16) + 1]
        ELSE HexDigits[(bytes[k \div 2] % 16) + 1]]

\* Result<Vec<u8>,FromHexError>
hex_decode(text) ==
    IF Len(text) % 2 # 0 THEN [ok |-> FALSE, kind |-> "OddLength", val |-> <<>>]
    ELSE IF \E i \in DOMAIN text : HexVal(text[i]) < 0
    THEN [ok |-> FALSE, kind |-> "InvalidHexCharacter", val |-> <<>>]
    ELSE [ok |-> TRUE, kind |-> "Ok",
          val |-> [k \in 1..(Len(text) \div 2) |->
                      16 * HexVal(text[2 * k - 1]) + HexVal(text[2 * k])]]

(***************************************************************************)
(* serde_json::to_string(&CommandConfig)                                   *)
(*                                                                         *)
(* #[derive(Serialize)] writes the fields in declaration order: program,   *)
(* dir, env_vars, args.  An OsString is written as the newtype variant     *)
(* {"Unix":[b1,b2,...]} of its bytes, a PathBuf as a JSON string (an error *)
(* when the path is not UTF-8), an Option as null or its content, a tuple  *)
(* and a Vec as an array.  The text is compact: no whitespace.             *)
(***************************************************************************)
Digit(d) == 48 + d

\* A u8 in decimal.
JsonU8(n) ==
    IF n < 10 THEN <<Digit(n)>>
    ELSE IF n < 100 THEN <<Digit(n \div 10), Digit(n % 10)>>
    ELSE <<Digit(n \div 100), Digit((n \div 10) % 10), Digit(n % 10)>>

\* The written pieces, separated by commas.
RECURSIVE JsonJoin(_)
JsonJoin(pieces) ==
    IF Len(pieces) = 0 THEN <<>>
    ELSE IF Len(pieces) = 1 THEN pieces[1]
    ELSE pieces[1] \o <<44>> \o JsonJoin(Tail(pieces))

\* {"Unix":[ ... ]}
JsonOsString(bytes) ==
    <<123, 34, 85, 110, 105, 120, 34, 58, 91>> \o JsonJoin([i \in DOMAIN bytes |-> JsonU8(bytes[i])]) \o <<93, 125>>

\* One char of a JSON string: serde_json's ESCAPE table.
JsonEscape(b) ==
    IF b = 34 THEN <<92, 34>>
    ELSE IF b = 92 THEN <<92, 92>>
    ELSE IF b = 8 THEN <<92, 98>>
    ELSE IF b = 9 THEN <<92, 116>>
    ELSE IF b = 10 THEN <<92, 110>>
    ELSE IF b = 12 THEN <<92, 102>>
    ELSE IF b = 13 THEN <<92, 114>>
    ELSE IF b < 32
    THEN <<92, 117, 48, 48, HexDigits[(b \div 16) + 1], HexDigits[(b % 16) + 1]>>
    ELSE <<b>>

JsonString(text) == <<34>> \o Concat([i \in DOMAIN text |-> JsonEscape(text[i])]) \o <<34>>

JsonNull == <<110, 117, 108, 108>>

JsonOptOsString(opt) == IF opt = None THEN JsonNull ELSE JsonOsString(opt[1])

\* (OsString, Option<OsString>)
JsonEnvVar(pair) == <<91>> \o JsonOsString(pair[1]) \o <<44>> \o JsonOptOsString(pair[2]) \o <<93>>

\* Result<String,serde_json::Error>
to_string(config) ==
    IF config.dir # None /\ ~Utf8Valid(config.dir[1])
    THEN [ok |-> FALSE, kind |-> "Serialization", val |-> <<>>]
    ELSE [ok |-> TRUE, kind |-> "Ok", val |->
            <<123, 34, 112, 114, 111, 103, 114, 97, 109, 34, 58>>         \* {"program":
            \o JsonOsString(config.program)
            \o <<44, 34, 100, 105, 114, 34, 58>>                            \* ,"dir":
            \o (IF config.dir = None THEN JsonNull ELSE JsonString(config.dir[1]))
            \o <<44, 34, 101, 110, 118, 95, 118, 97, 114, 115, 34, 58, 91>> \* ,"env_vars":[
            \o JsonJoin([i \in DOMAIN config.env_vars |-> JsonEnvVar(config.env_vars[i])])
            \o <<93, 44, 34, 97, 114, 103, 115, 34, 58, 91>>                \* ],"args":[
            \o JsonJoin([i \in DOMAIN config.args |-> JsonOsString(config.args[i])])
            \o <<93, 125>>]                                                 \* ]}

(***************************************************************************)
(* serde_json::from_str::<CommandConfig>                                   *)
(*                                                                         *)
(* A recursive-descent reader of the text to_string writes: the object's   *)
(* keys in declaration order and no insignificant whitespace.  Each reader *)
(* takes the text and a position and returns [ok, val, next].              *)
(***************************************************************************)
ParseFail == [ok |-> FALSE, val |-> <<>>, next |-> 0]
ParseOk(v, n) == [ok |-> TRUE, val |-> v, next |-> n]

At(s, i) == IF i \in 1..Len(s) THEN s[i] ELSE -1
IsDigitAt(s, i) == At(s, i) \in 48..57

\* How many of the (at most four) chars at i are digits.
DigitRun(s, i) ==
    IF ~IsDigitAt(s, i) THEN 0
    ELSE IF ~IsDigitAt(s, i + 1) THEN 1
    ELSE IF ~IsDigitAt(s, i + 2) THEN 2
    ELSE IF ~IsDigitAt(s, i + 3) THEN 3
    ELSE 4

DigitsValue(s, i, n) ==
    IF n = 1 THEN s[i] - 48
    ELSE IF n = 2 THEN 10 * (s[i] - 48) + (s[i + 1] - 48)
    ELSE 100 * (s[i] - 48) + 10 * (s[i + 1] - 48) + (s[i + 2] - 48)

U8InRange(v, next) == IF v > 255 THEN ParseFail ELSE ParseOk(v, next)

U8OfDigits(s, i, n) ==
    IF n = 0 \/ n = 4 THEN ParseFail
    ELSE IF n > 1 /\ s[i] = 48 THEN ParseFail
    ELSE U8InRange(DigitsValue(s, i, n), i + n)

\* A JSON number read as a u8: no leading zero, at most 255.
ParseU8(s, i) == U8OfDigits(s, i, DigitRun(s, i))

RECURSIVE ParseU8Items(_, _, _), U8ItemsNext(_, _, _)
\* After the element r: a comma and more elements, or the closing bracket.
U8ItemsNext(s, r, acc) ==
    IF ~r.ok THEN ParseFail
    ELSE IF At(s, r.next) = 44 THEN ParseU8Items(s, r.next + 1, Append(acc, r.val))
    ELSE IF At(s, r.next) = 93 THEN ParseOk(Append(acc, r.val), r.next + 1)
    ELSE ParseFail

ParseU8Items(s, i, acc) == U8ItemsNext(s, ParseU8(s, i), acc)

\* The elements of an array of u8, the text standing after its '['.
ParseU8List(s, i) == IF At(s, i) = 93 THEN ParseOk(<<>>, i + 1) ELSE ParseU8Items(s, i, <<>>)

OsStringClose(s, r) ==
    IF r.ok /\ At(s, r.next) = 125 THEN ParseOk(r.val, r.next + 1) ELSE ParseFail

\* {"Unix":[ ... ]}
ParseOsString(s, i) ==
    IF ~StartsWithAt(s, i, <<123, 34, 85, 110, 105, 120, 34, 58, 91>>) THEN ParseFail
    ELSE OsStringClose(s, ParseU8List(s, i + 9))

ParsedSome(r) == IF r.ok THEN ParseOk(Some(r.val), r.next) ELSE ParseFail

ParseOptOsString(s, i) ==
    IF StartsWithAt(s, i, JsonNull) THEN ParseOk(None, i + 4)
    ELSE ParsedSome(ParseOsString(s, i))

RECURSIVE ParseOsStringItems(_, _, _), OsStringItemsNext(_, _, _)
OsStringItemsNext(s, r, acc) ==
    IF ~r.ok THEN ParseFail
    ELSE IF At(s, r.next) = 44 THEN ParseOsStringItems(s, r.next + 1, Append(acc, r.val))
    ELSE IF At(s, r.next) = 93 THEN ParseOk(Append(acc, r.val), r.next + 1)
    ELSE ParseFail

ParseOsStringItems(s, i, acc) == OsStringItemsNext(s, ParseOsString(s, i), acc)

ParseOsStringList(s, i) ==
    IF At(s, i) = 93 THEN ParseOk(<<>>, i + 1) ELSE ParseOsStringItems(s, i, <<>>)

EnvVarClose(s, k, v) ==
    IF v.ok /\ At(s, v.next) = 93 THEN ParseOk(<<k.val, v.val>>, v.next + 1) ELSE ParseFail

EnvVarValue(s, k) ==
    IF ~k.ok \/ At(s, k.next) # 44 THEN ParseFail
    ELSE EnvVarClose(s, k, ParseOptOsString(s, k.next + 1))

\* [ OsString , Option<OsString> ]
ParseEnvVar(s, i) ==
    IF At(s, i) # 91 THEN ParseFail ELSE EnvVarValue(s, ParseOsString(s, i + 1))

RECURSIVE ParseEnvVarItems(_, _, _), EnvVarItemsNext(_, _, _)
EnvVarItemsNext(s, r, acc) ==
    IF ~r.ok THEN ParseFail
    ELSE IF At(s, r.next) = 44 THEN ParseEnvVarItems(s, r.next + 1, Append(acc, r.val))
    ELSE IF At(s, r.next) = 93 THEN ParseOk(Append(acc, r.val), r.next + 1)
    ELSE ParseFail

ParseEnvVarItems(s, i, acc) == EnvVarItemsNext(s, ParseEnvVar(s, i), acc)

ParseEnvVarList(s, i) ==
    IF At(s, i) = 93 THEN ParseOk(<<>>, i + 1) ELSE ParseEnvVarItems(s, i, <<>>)

\* The UTF-8 bytes of a code point below 0x10000 (a \uXXXX escape).
Utf8Encode(cp) ==
    IF cp < 128 THEN <<cp>>
    ELSE IF cp < 2048 THEN <<192 + (cp \div 64), 128 + (cp % 64)>>
    ELSE <<224 + (cp \div 4096), 128 + ((cp \div 64) % 64), 128 + (cp % 64)>>

\* The char a two-byte escape stands for, -1 when it is none.
JsonUnescape(c) ==
    IF c \in {34, 92, 47} THEN c
    ELSE IF c = 98 THEN 8
    ELSE IF c = 102 THEN 12
    ELSE IF c = 110 THEN 10
    ELSE IF c = 114 THEN 13
    ELSE IF c = 116 THEN 9
    ELSE -1

\* The code point of the four hex digits at i, -1 when they are not four.
Hex4At(s, i) ==
    IF \A k \in 0..3 : HexVal(At(s, i + k)) >= 0
    THEN 4096 * HexVal(s[i]) + 256 * HexVal(s[i + 1]) + 16 * HexVal(s[i + 2]) + HexVal(s[i + 3])
    ELSE -1

\* The chars of a JSON string up to its closing quote.  A \u escape of a
\* surrogate (which serde_json joins with the next escape) is refused here.
RECURSIVE ParseStringBody(_, _, _), StringChar(_, _, _, _), StringEscape(_, _, _, _, _)
\* The escape whose second char is e; cp is the code point of a \u escape.
StringEscape(s, i, acc, e, cp) ==
    IF JsonUnescape(e) >= 0 THEN ParseStringBody(s, i + 2, Append(acc, JsonUnescape(e)))
    ELSE IF e # 117 \/ cp < 0 \/ cp \in 55296..57343 THEN ParseFail
    ELSE ParseStringBody(s, i + 6, acc \o Utf8Encode(cp))

StringChar(s, i, acc, c) ==
    IF c < 32 THEN ParseFail
    ELSE IF c = 34 THEN ParseOk(acc, i + 1)
    ELSE IF c # 92 THEN ParseStringBody(s, i + 1, Append(acc, c))
    ELSE StringEscape(s, i, acc, At(s, i + 1), Hex4At(s, i + 2))

ParseStringBody(s, i, acc) == StringChar(s, i, acc, At(s, i))

\* Option<PathBuf>
ParseOptPath(s, i) ==
    IF StartsWithAt(s, i, JsonNull) THEN ParseOk(None, i + 4)
    ELSE IF At(s, i) # 34 THEN ParseFail
    ELSE ParsedSome(ParseStringBody(s, i + 1, <<>>))

CommandConfig(program, dir, env_vars, args) ==
    [program |-> program, dir |-> dir, env_vars |-> env_vars, args |-> args]

DeserializationError == [ok |-> FALSE, kind |-> "Deserialization", val |-> <<>>]

\* ... "args":[ ... ]} and the end of the text
FromStrEnd(s, program, dir, env_vars, args) ==
    IF ~args.ok \/ At(s, args.next) # 125 \/ args.next # Len(s)
    THEN DeserializationError
    ELSE [ok |-> TRUE, kind |-> "Ok",
          val |-> CommandConfig(program.val, dir.val, env_vars.val, args.val)]

FromStrArgs(s, program, dir, env_vars) ==
    IF ~env_vars.ok \/ ~StartsWithAt(s, env_vars.next,
                           <<44, 34, 97, 114, 103, 115, 34, 58, 91>>)       \* ,"args":[
    THEN DeserializationError
    ELSE FromStrEnd(s, program, dir, env_vars, ParseOsStringList(s, env_vars.next + 9))

FromStrEnvVars(s, program, dir) ==
    IF ~dir.ok \/ ~StartsWithAt(s, dir.next,
                      <<44, 34, 101, 110, 118, 95, 118, 97, 114, 115, 34, 58, 91>>) \* ,"env_vars":[
    THEN DeserializationError
    ELSE FromStrArgs(s, program, dir, ParseEnvVarList(s, dir.next + 13))

FromStrDir(s, program) ==
    IF ~program.ok \/ ~StartsWithAt(s, program.next, <<44, 34, 100, 105, 114, 34, 58>>) \* ,"dir":
    THEN DeserializationError
    ELSE FromStrEnvVars(s, program, ParseOptPath(s, program.next + 7))

\* Result<CommandConfig,serde_json::Error>
from_str(s) ==
    IF ~StartsWithAt(s, 1, <<123, 34, 112, 114, 111, 103, 114, 97, 109, 34, 58>>)  \* {"program":
    THEN DeserializationError
    ELSE FromStrDir(s, ParseOsString(s, 12))

(***************************************************************************)
(* std::process::Command, as far as CommandConfig reads and writes it      *)
(*                                                                         *)
(* A Command keeps its environment edits in a map ordered by key           *)
(* (CommandEnv: BTreeMap<EnvKey,Option<OsString>>): env(k,v) stores        *)
(* k -> Some(v), env_remove(k) stores k -> None, each replacing what the   *)
(* key held.  get_envs() iterates the map in key order.  The map is the    *)
(* sequence of its entries, sorted by key.                                 *)
(***************************************************************************)
\* Ord for OsStr: bytewise, a proper prefix first.
BytesLess(a, b) ==
    \E i \in 1..(Len(b)) :
        /\ \A j \in 1..(i - 1) : j <= Len(a) /\ a[j] = b[j]
        /\ (i > Len(a) \/ (i - 1 <= Len(a) /\ a[i] < b[i]))

\* A list that keeps every edit in call order, in place of the map.
EnvAppend(env, key, value) == Append(env, <<key, value>>)

\* BTreeMap::insert(key, value)
EnvInsert(env, key, value) ==
    LET rest == SelectSeq(env, LAMBDA e : e[1] # key)
        n == Cardinality({i \in DOMAIN rest : BytesLess(rest[i][1], key)})
    IN SubSeq(rest, 1, n) \o <<<<key, value>>>> \o SubSeq(rest, n + 1, Len(rest))

RECURSIVE ApplyEnvVars(_, _)
ApplyEnvVars(env_vars, env) ==
    IF env_vars = <<>> THEN env
    ELSE ApplyEnvVars(Tail(env_vars), EnvInsert(env, Head(env_vars)[1], Head(env_vars)[2]))

Command(program, args, env, cwd) ==
    [program |-> program, args |-> args, env |-> env, cwd |-> cwd]

\* impl From<CommandConfig> for Command
CommandFromConfig(config) ==
    Command(config.program, config.args, ApplyEnvVars(config.env_vars, <<>>), config.dir)

\* impl From<Command> for CommandConfig
ConfigFromCommand(command) ==
    CommandConfig(command.program, command.cwd, command.env, command.args)

(***************************************************************************)
(* CommandConfig::encode / CommandConfig::decode (command.rs)              *)
(***************************************************************************)
CodecErr(kind) == [ok |-> FALSE, kind |-> kind, val |-> <<>>]
CodecOk(v) == [ok |-> TRUE, kind |-> "Ok", val |-> v]

\* .map_err(|e| CommandConfigError { kind })
map_err(r, kind) == IF r.ok THEN r ELSE CodecErr(kind)

\* hex::encode, were it to write A-F for a-f
EncodeJson(json) == IF json.ok THEN CodecOk(hex_encode(json.val)) ELSE json

\* Result<String,CommandConfigError>
encode(command) == EncodeJson(map_err(to_string(ConfigFromCommand(command)), "Serialization"))

DecodeConfig(config) == IF config.ok THEN CodecOk(CommandFromConfig(config.val)) ELSE config

DecodeJson(json) ==
    IF json.ok THEN DecodeConfig(map_err(from_str(json.val), "Deserialization")) ELSE json

\* String::from_utf8 : Result<String,FromUtf8Error>
from_utf8(bytes) ==
    IF Utf8Valid(bytes) THEN [ok |-> TRUE, kind |-> "Ok", val |-> bytes]
    ELSE [ok |-> FALSE, kind |-> "FromUtf8Error", val |-> <<>>]

DecodeBytes(bytes) ==
    IF bytes.ok THEN DecodeJson(map_err(from_utf8(bytes.val), "Utf8")) ELSE bytes

\* Result<Command,CommandConfigError>
decode(hexcode) == DecodeBytes(map_err(hex_decode(hexcode), "HexDecode"))

(***************************************************************************)
(* CommandConfig::encode / CommandConfig::decode (lib.rs): the same steps, *)
(* each unwrap()ped, so that an Err aborts the caller with a panic.        *)
(***************************************************************************)
Panic == [ok |-> FALSE, kind |-> "Panic", val |-> <<>>]

\* Result::unwrap
unwrap(r) == IF r.ok THEN r ELSE Panic

LibEncodeJson(json) == IF json.ok THEN CodecOk(hex_encode(json.val)) ELSE json

lib_encode(command) == LibEncodeJson(unwrap(to_string(ConfigFromCommand(command))))

LibDecodeConfig(config) == IF config.ok THEN CodecOk(CommandFromConfig(config.val)) ELSE config

LibDecodeJson(json) == IF json.ok THEN LibDecodeConfig(unwrap(from_str(json.val))) ELSE json

LibDecodeBytes(bytes) == IF bytes.ok THEN LibDecodeJson(unwrap(from_utf8(bytes.val))) ELSE bytes

lib_decode(hexcode) == LibDecodeBytes(unwrap(hex_decode(hexcode)))

(***************************************************************************)
(* The validator and the codec as state machines over bounded inputs       *)
(***************************************************************************)
\* "e", and a program name that is not UTF-8
Programs == {<<101>>, <<255>>}
\* no directory, "/", a directory holding a quote, a directory that is not UTF-8
Dirs == {None, Some(<<47>>), Some(<<47, 34>>), Some(<<255>>)}
\* "A", "B"
EnvKeys == {<<65>>, <<66>>}
\* unset, set to "1"
EnvVals == {None, Some(<<49>>)}
\* "x", "yz"
Args == {<<120>>, <<121, 122>>}
MaxEnvVars == 2
MaxArgs == 2

Configs ==
    {CommandConfig(p, d, e, a) :
        p \in Programs, d \in Dirs,
        e \in SeqUpTo(EnvKeys \X EnvVals, MaxEnvVars), a \in SeqUpTo(Args, MaxArgs)}

\* The state of the parts a specification leaves alone.
NameIdle == raw = <<>> /\ nameRes = None
CodecIdle == cfg = CommandConfig(<<>>, None, <<>>, <<>>) /\ token = None /\ back = None
GatewayIdle ==
    /\ units = <<>> /\ hostOk = TRUE /\ pc = "idle"
    /\ cur = <<>> /\ last = <<>> /\ reg = <<>>

InitName == raw \in RawNames /\ nameRes = None /\ CodecIdle /\ GatewayIdle

\* let timer_name = TimerName::new(raw)
New ==
    /\ nameRes = None
    /\ nameRes' = Some(TimerName_new(raw))
    /\ UNCHANGED <<raw, codecVars, gatewayVars>>

NextName == New

SpecName == InitName /\ [][NextName]_vars

InitCodec == cfg \in Configs /\ token = None /\ back = None /\ NameIdle /\ GatewayIdle

\* let token = CommandConfig::encode(Command::from(cfg))
Encode ==
    /\ token = None
    /\ token' = Some(encode(CommandFromConfig(cfg)))
    /\ UNCHANGED <<cfg, back, nameVars, gatewayVars>>

\* let back = CommandConfig::decode(token)
Decode ==
    /\ token # None /\ token[1].ok /\ back = None
    /\ back' = Some(decode(token[1].val))
    /\ UNCHANGED <<cfg, token, nameVars, gatewayVars>>

NextCodec == Encode \/ Decode

SpecCodec == InitCodec /\ [][NextCodec]_vars

(***************************************************************************)
(* chrono::NaiveDateTime: format("%F %T") and                              *)
(* parse_from_str(_, "%Y-%m-%d %H:%M:%S")                                  *)
(***************************************************************************)
NaiveDateTime(year, month, day, hour, minute, second, nanos) ==
    [year |-> year, month |-> month, day |-> day,
     hour |-> hour, minute |-> minute, second |-> second, nanos |-> nanos]

Two(n) == <<Digit(n \div 10), Digit(n % 10)>>
Four(n) == <<Digit(n \div 1000), Digit((n \div 100) % 10), Digit((n \div 10) % 10), Digit(n % 10)>>

\* A format that also writes the fraction of the second ("%F %T%.f").
format_WithFraction(t) ==
    Four(t.year) \o <<45>> \o Two(t.month) \o <<45>> \o Two(t.day) \o <<32>>
    \o Two(t.hour) \o <<58>> \o Two(t.minute) \o <<58>> \o Two(t.second)
    \o (IF t.nanos = 0 THEN <<>> ELSE <<46, Digit(t.nanos \div 100000000)>>)

\* "%F %T" : YYYY-MM-DD HH:MM:SS, the fraction of the second dropped.
format(t) ==
    Four(t.year) \o <<45>> \o Two(t.month) \o <<45>> \o Two(t.day) \o <<32>>
    \o Two(t.hour) \o <<58>> \o Two(t.minute) \o <<58>> \o Two(t.second)

NumAt(s, i, n) == IF n = 2 THEN DigitsValue(s, i, 2)
                  ELSE 100 * DigitsValue(s, i, 2) + DigitsValue(s, i + 2, 2)

DaysInMonth(year, month) ==
    IF month \in {4, 6, 9, 11} THEN 30
    ELSE IF month # 2 THEN 31
    ELSE IF year % 4 = 0 /\ (year % 100 # 0 \/ year % 400 = 0) THEN 29
    ELSE 28

DateTimeInRange(t) ==
    /\ t.month \in 1..12
    /\ t.day \in 1..DaysInMonth(t.year, t.month)
    /\ t.hour \in 0..23 /\ t.minute \in 0..59 /\ t.second \in 0..59

ParsedDateTime(t) ==
    IF DateTimeInRange(t) THEN [ok |-> TRUE, val |-> t] ELSE [ok |-> FALSE, val |-> <<>>]

\* Result<NaiveDateTime,ParseError> of a text in the shape format() writes:
\* nineteen chars, digits and separators each in its place.
parse_from_str(s) ==
    IF /\ Len(s) = 19
       /\ \A i \in {1, 2, 3, 4, 6, 7, 9, 10, 12, 13, 15, 16, 18, 19} : IsDigitAt(s, i)
       /\ s[5] = 45 /\ s[8] = 45 /\ s[11] = 32 /\ s[14] = 58 /\ s[17] = 58
    THEN ParsedDateTime(NaiveDateTime(NumAt(s, 1, 4), NumAt(s, 6, 2), NumAt(s, 9, 2),
                                      NumAt(s, 12, 2), NumAt(s, 15, 2), NumAt(s, 18, 2), 0))
    ELSE [ok |-> FALSE, val |-> <<>>]

(***************************************************************************)
(* The user service manager, as systemd-run and systemctl show it          *)
(*                                                                         *)
(* A unit is [load, desc, cal]: what `systemctl --user show <name>.timer`  *)
(* prints for LoadState, Description and TimersCalendar.                   *)
(***************************************************************************)
Loaded == <<108, 111, 97, 100, 101, 100>>                   \* "loaded"
NotFoundState == <<110, 111, 116, 45, 102, 111, 117, 110, 100>> \* "not-found"
Masked == <<109, 97, 115, 107, 101, 100>>                   \* "masked"
TimerSuffix == <<46, 116, 105, 109, 101, 114>>              \* ".timer"
SystemdWake == <<115, 121, 115, 116, 101, 109, 100, 45, 119, 97, 107, 101>> \* "systemd-wake"
LoadStateKey == <<76, 111, 97, 100, 83, 116, 97, 116, 101>> \* "LoadState"
DescriptionKey == <<68, 101, 115, 99, 114, 105, 112, 116, 105, 111, 110>> \* "Description"
TimersCalendarKey == <<84, 105, 109, 101, 114, 115, 67, 97, 108, 101, 110, 100, 97, 114>> \* "TimersCalendar"
OnCalendarMarker == <<79, 110, 67, 97, 108, 101, 110, 100, 97, 114, 61>> \* "OnCalendar="
TrailerMarker == <<32, 59>>                                 \* " ;"

Unit(load, desc, cal) == [load |-> load, desc |-> desc, cal |-> cal]

\* A unit the manager does not know: its description is its own id.
NotFound(n) == Unit(NotFoundState, n \o TimerSuffix, <<>>)

\* What the manager shows for a calendar timer: { OnCalendar=<expr> ; next_elapse=n/a }
CalendarValue(expr) ==
    <<123, 32>> \o OnCalendarMarker \o expr
    \o <<32, 59, 32, 110, 101, 120, 116, 95, 101, 108, 97, 112, 115, 101, 61, 110, 47, 97, 32, 125>>

\* The transient timer systemd-run creates: described by the command line
\* it was given, armed for the calendar expression.
TransientTimer(on_calendar, program, argument) ==
    Unit(Loaded, program \o <<32>> \o argument, CalendarValue(on_calendar))

\* The output of a child process: whether it could be spawned, its exit
\* status, its stdout, and the unit namespace it leaves behind.
Output(success, stdout, after) ==
    [spawned |-> TRUE, success |-> success, stdout |-> stdout, units |-> after]
SpawnFailed == [spawned |-> FALSE, success |-> FALSE, stdout |-> <<>>, units |-> units]

\* systemd-run --user --unit=<n> --on-calendar=<expr> systemd-wake <token>
\* refuses a unit name that is in use.
systemd_run(n, on_calendar, encoded_command) ==
    IF ~hostOk THEN SpawnFailed
    ELSE IF units[n].load # NotFoundState THEN Output(FALSE, <<>>, units)
    ELSE Output(TRUE, <<>>,
                [units EXCEPT ![n] = TransientTimer(on_calendar, SystemdWake, encoded_command)])

\* systemctl --user stop <n>.timer fails for a unit that is not loaded; a
\* stopped transient timer is gone.
systemctl_stop(n) ==
    IF ~hostOk THEN SpawnFailed
    ELSE IF units[n].load = NotFoundState THEN Output(FALSE, <<>>, units)
    ELSE IF units[n].load = Loaded THEN Output(TRUE, <<>>, [units EXCEPT ![n] = NotFound(n)])
    ELSE Output(TRUE, <<>>, units)

PropertyValue(unit, property) ==
    IF property = LoadStateKey THEN unit.load
    ELSE IF property = DescriptionKey THEN unit.desc
    ELSE unit.cal

\* systemctl --user show <n>.timer --property=<property> prints
\* <property>=<value> and a newline, also for a unit it does not know.
systemctl_show(n, property) ==
    IF ~hostOk THEN SpawnFailed
    ELSE Output(TRUE, property \o <<61>> \o PropertyValue(units[n], property) \o <<10>>, units)

(***************************************************************************)
(* lib.rs: run_command, register, deregister, extract_property,            *)
(* query_registration                                                      *)
(***************************************************************************)
Result(kind, val) == [kind |-> kind, val |-> val]

\* run_command without the exit-status test of its second match arm.
run_command_IgnoreStatus(output) ==
    IF ~output.spawned THEN Result("CommandError", <<"RunCommand">>)
    ELSE Result("Ok", output.stdout)

\* Result<Output,CommandError>
run_command(output) ==
    IF ~output.spawned THEN Result("CommandError", <<"RunCommand">>)
    ELSE IF ~output.success THEN Result("CommandError", <<"CommandFailed">>)
    ELSE Result("Ok", output.stdout)

\* A returned call of a public operation: what it was, what it returned,
\* the child processes it ran in order, the state of its unit when it was
\* called, and (query_registration) its locals desc and splits.1.
Call(op, name, result, calls, prior, desc, splits1) ==
    [op |-> op, name |-> name, result |-> result, calls |-> calls,
     prior |-> prior, desc |-> desc, token |-> splits1]

NoCall == Call("none", <<>>, Result("none", <<>>), <<>>, <<>>, None, None)

Prior(n) == [load |-> units[n].load, pending |-> reg[n] # None]

Return(call) == last' = call /\ pc' = "idle" /\ cur' = NoCall

\* register dropping the result of run_command: let _ = run_command(..); Ok(())
RegisterRan_IgnoreResult(event_time, n, command, output) ==
    /\ units' = output.units
    /\ reg' = IF output.spawned /\ output.success
              THEN [reg EXCEPT ![n] = Some([command |-> command, time |-> event_time])]
              ELSE reg
    /\ Return(Call("register", n, Result("Ok", <<>>),
                   <<"systemd-run">>, Prior(n), None, None))

\* run_command(systemd_command)?; Ok(())
RegisterRan(event_time, n, command, output) ==
    /\ units' = output.units
    /\ reg' = IF output.spawned /\ output.success
              THEN [reg EXCEPT ![n] = Some([command |-> command, time |-> event_time])]
              ELSE reg
    /\ Return(Call("register", n,
                   IF run_command(output).kind = "Ok" THEN Result("Ok", <<>>)
                   ELSE run_command(output),
                   <<"systemd-run">>, Prior(n), None, None))

RegisterEncoded(event_time, n, command, encoded_command) ==
    IF ~encoded_command.ok
    THEN /\ Return(Call("register", n, Result("Panic", <<>>), <<>>, Prior(n), None, None))
         /\ UNCHANGED <<units, reg>>
    ELSE RegisterRan(event_time, n, command,
                     systemd_run(n, format(event_time), encoded_command.val))

\* register(event_time, timer_name, command)
Register(event_time, n, command) ==
    /\ pc = "idle"
    /\ RegisterEncoded(event_time, n, command, lib_encode(command))
    /\ UNCHANGED <<hostOk, nameVars, codecVars>>

\* deregister running systemctl stop a second time when the first one fails.
DeregisterRan_Retry(n, output) ==
    /\ units' = output.units
    /\ reg' = IF output.spawned /\ output.success THEN [reg EXCEPT ![n] = None] ELSE reg
    /\ Return(Call("deregister", n,
                   IF run_command(output).kind = "Ok" THEN Result("Ok", <<>>)
                   ELSE run_command(output),
                   IF run_command(output).kind = "Ok" THEN <<"systemctl stop">>
                   ELSE <<"systemctl stop", "systemctl stop">>,
                   Prior(n), None, None))

\* run_command(systemd_command)?; Ok(())
DeregisterRan(n, output) ==
    /\ units' = output.units
    /\ reg' = IF output.spawned /\ output.success THEN [reg EXCEPT ![n] = None] ELSE reg
    /\ Return(Call("deregister", n,
                   IF run_command(output).kind = "Ok" THEN Result("Ok", <<>>)
                   ELSE run_command(output),
                   <<"systemctl stop">>, Prior(n), None, None))

\* deregister(timer_name)
Deregister(n) ==
    /\ pc = "idle"
    /\ DeregisterRan(n, systemctl_stop(n))
    /\ UNCHANGED <<hostOk, nameVars, codecVars>>

ExtractedText(text, property) ==
    IF ~text.ok THEN Result("ParseError", <<>>)
    ELSE IF strip_prefix(text.val, property \o <<61>>) = None THEN Result("ParseError", <<>>)
    ELSE Result("Ok", trim_end(strip_prefix(text.val, property \o <<61>>)[1]))

Extracted(output, property) ==
    IF output.kind # "Ok" THEN output ELSE ExtractedText(from_utf8(output.val), property)

\* extract_property(timer_name, property) : Result<String,QueryError>
extract_property(n, property) == Extracted(run_command(systemctl_show(n, property)), property)

\* The load state compared with "not-found" in place of "loaded".
IsLoaded_NotNotFound(value) == value # NotFoundState

\* extract_property(timer_name, "LoadState")? != "loaded"
IsLoaded(value) == value = Loaded

\* A split at a tab in place of the space.
DescriptionSeparator_Tab == <<9>>

\* desc.split_once(" ")
DescriptionSeparator == <<32>>

QueryLoadStateGot(n, load) ==
    IF load.kind # "Ok"
    THEN Return(Call("query_registration", n, load, <<"show LoadState">>, Prior(n), None, None))
    ELSE IF ~IsLoaded(load.val)
    THEN Return(Call("query_registration", n, Result("NotLoaded", <<>>),
                     <<"show LoadState">>, Prior(n), None, None))
    ELSE /\ pc' = "Description"
         /\ cur' = Call("query_registration", n, Result("none", <<>>),
                        <<"show LoadState">>, Prior(n), None, None)
         /\ last' = last

\* query_registration(timer_name), up to the LoadState check
QueryLoadState(n) ==
    /\ pc = "idle"
    /\ UNCHANGED <<units, reg, hostOk, nameVars, codecVars>>
    /\ QueryLoadStateGot(n, extract_property(n, LoadStateKey))

QueryDecoded(calls, desc, splits1, command) ==
    IF ~command.ok
    THEN Return(Call("query_registration", cur.name, Result("Panic", <<>>),
                     calls, cur.prior, Some(desc), Some(splits1)))
    ELSE /\ pc' = "TimersCalendar"
         /\ cur' = Call("query_registration", cur.name, Result("command", command.val),
                        calls, cur.prior, Some(desc), Some(splits1))
         /\ last' = last

QuerySplit(calls, desc, splits) ==
    IF splits = None
    THEN Return(Call("query_registration", cur.name, Result("ParseError", <<>>),
                     calls, cur.prior, Some(desc), None))
    ELSE QueryDecoded(calls, desc, splits[1][2], lib_decode(splits[1][2]))

QueryDescriptionGot(calls, desc) ==
    IF desc.kind # "Ok"
    THEN Return(Call("query_registration", cur.name, desc, calls, cur.prior, None, None))
    ELSE QuerySplit(calls, desc.val, split_once(desc.val, DescriptionSeparator))

\* query_registration, from the Description property to the decoded command
QueryDescription ==
    /\ pc = "Description"
    /\ UNCHANGED <<units, reg, hostOk, nameVars, codecVars>>
    /\ QueryDescriptionGot(Append(cur.calls, "show Description"),
                           extract_property(cur.name, DescriptionKey))

QueryParsed(calls, datetime) ==
    Return(Call("query_registration", cur.name,
                IF datetime.ok THEN Result("Ok", <<cur.result.val, datetime.val>>)
                ELSE Result("ParseError", <<>>),
                calls, cur.prior, cur.desc, cur.token))

QueryTrailer(calls, splits) ==
    IF splits = None
    THEN Return(Call("query_registration", cur.name, Result("ParseError", <<>>),
                     calls, cur.prior, cur.desc, cur.token))
    ELSE QueryParsed(calls, parse_from_str(splits[1][1]))

QueryOnCalendar(calls, splits) ==
    IF splits = None
    THEN Return(Call("query_registration", cur.name, Result("ParseError", <<>>),
                     calls, cur.prior, cur.desc, cur.token))
    ELSE QueryTrailer(calls, split_once(splits[1][2], TrailerMarker))

QueryCalendarGot(calls, calendar) ==
    IF calendar.kind # "Ok"
    THEN Return(Call("query_registration", cur.name, calendar, calls, cur.prior,
                     cur.desc, cur.token))
    ELSE QueryOnCalendar(calls, split_once(calendar.val, OnCalendarMarker))

\* query_registration, from the TimersCalendar property to its return
QueryCalendar ==
    /\ pc = "TimersCalendar"
    /\ UNCHANGED <<units, reg, hostOk, nameVars, codecVars>>
    /\ QueryCalendarGot(Append(cur.calls, "show TimersCalendar"),
                        extract_property(cur.name, TimersCalendarKey))

(***************************************************************************)
(* The gateway and the service manager as a state machine: one caller,     *)
(* whose operations block until their child process has exited, and the    *)
(* manager's namespace, which timers leave as they elapse and which other  *)
(* programs of the user load units into.                                   *)
(***************************************************************************)
\* "a", "b"
Names == {n \in {<<97>>, <<98>>} : TimerName_new(n).ok}

\* echo hi
CmdEcho == Command(<<101, 99, 104, 111>>, <<<<104, 105>>>>, <<>>, None)
\* A=1 e, run in /
CmdEnv == Command(<<101>>, <<>>, <<<<<<65>>, Some(<<49>>)>>>>, Some(<<47>>))
\* e, run in a directory whose name is not UTF-8
CmdBadDir == Command(<<101>>, <<>>, <<>>, Some(<<255>>))
Commands == {CmdEcho, CmdEnv, CmdBadDir}

\* 2024-02-29 00:00:00 and half a second, 2025-12-31 23:59:59
Times ==
    {NaiveDateTime(2024, 2, 29, 0, 0, 0, 500000000),
     NaiveDateTime(2025, 12, 31, 23, 59, 59, 0)}

\* The token of echo hi, and the calendar of 2024-01-01 00:00:00.
EchoToken == lib_encode(CmdEcho).val
GoodCalendar == CalendarValue(format(NaiveDateTime(2024, 1, 1, 0, 0, 0, 0)))

\* Units of other programs: descriptions "x<TAB><token>", "x  <token>",
\* "x zz" (not hex), "x ff" (hex, not UTF-8), "x 7b7d" (the JSON text {}),
\* "x"; "x <token>" with a calendar that has no OnCalendar= marker and with
\* one that is no timestamp (daily); and a masked unit.
ForeignUnits ==
    {Unit(Loaded, <<120, 9>> \o EchoToken, GoodCalendar),
     Unit(Loaded, <<120, 32, 32>> \o EchoToken, GoodCalendar),
     Unit(Loaded, <<120, 32, 122, 122>>, GoodCalendar),
     Unit(Loaded, <<120, 32, 102, 102>>, GoodCalendar),
     Unit(Loaded, <<120, 32, 55, 98, 55, 100>>, GoodCalendar),
     Unit(Loaded, <<120>>, GoodCalendar),
     Unit(Loaded, <<120, 32>> \o EchoToken, <<>>),
     Unit(Loaded, <<120, 32>> \o EchoToken, CalendarValue(<<100, 97, 105, 108, 121>>)),
     Unit(Masked, <<120, 9>> \o EchoToken, <<>>)}

Init ==
    /\ units = [n \in Names |-> NotFound(n)]
    /\ hostOk \in BOOLEAN
    /\ pc = "idle"
    /\ cur = NoCall
    /\ last = NoCall
    /\ reg = [n \in Names |-> None]
    /\ NameIdle /\ CodecIdle

\* The timer of a loaded unit elapses (or its owner stops it): the manager
\* runs its job and drops the transient unit.
Fire(n) ==
    /\ hostOk /\ units[n].load = Loaded
    /\ units' = [units EXCEPT ![n] = NotFound(n)]
    /\ reg' = [reg EXCEPT ![n] = None]
    /\ UNCHANGED <<hostOk, pc, cur, last, nameVars, codecVars>>

\* Another program loads a unit under a name that is free.
ForeignCreate(n, unit) ==
    /\ hostOk /\ units[n].load = NotFoundState
    /\ units' = [units EXCEPT ![n] = unit]
    /\ UNCHANGED <<reg, hostOk, pc, cur, last, nameVars, codecVars>>

Next ==
    \/ \E t \in Times, n \in Names, c \in Commands : Register(t, n, c)
    \/ \E n \in Names : Deregister(n)
    \/ \E n \in Names : QueryLoadState(n)
    \/ QueryDescription
    \/ QueryCalendar
    \/ \E n \in Names : Fire(n)
    \/ \E n \in Names, u \in ForeignUnits : ForeignCreate(n, u)

Spec == Init /\ [][Next]_vars

(***************************************************************************)
(* Claims about the validator (SpecName)                                   *)
(***************************************************************************)
\* The whitespace characters of ASCII: TAB, LF, VT, FF, CR, SPACE.
AsciiWhitespace == {9, 10, 11, 12, 13, 32}
\* The printable characters of ASCII that are not whitespace: '!' .. '~'.
PrintableNonSpace == 33..126

\* C4, as stated: every name the validator accepts consists of printable,
\* non-whitespace ASCII characters only.
C4_AcceptedIsPrintable ==
    (nameRes # None /\ nameRes[1].ok) =>
        \A i \in DOMAIN raw : raw[i] \in PrintableNonSpace

\* C4, amended: every name the validator accepts consists of ASCII characters
\* (0..127) none of which is whitespace; control characters that are not
\* whitespace are accepted.
C4_AcceptedIsAsciiNonWhitespace ==
    (nameRes # None /\ nameRes[1].ok) =>
        /\ nameRes[1].name = raw
        /\ \A i \in DOMAIN raw : raw[i] \in (0..127) \ AsciiWhitespace

\* An accepted name that holds a control character.
C4_Witness ==
    /\ nameRes # None /\ nameRes[1].ok
    /\ \E i \in DOMAIN raw : raw[i] = 1

\* C5: new(raw) fails with NotAscii when some character is outside ASCII,
\* fails with ContainsWhitespace when all are ASCII and one is whitespace,
\* and succeeds with the name unchanged otherwise (the empty string too).
C5_ValidatorOutcome ==
    nameRes # None =>
        IF \E i \in DOMAIN raw : raw[i] > 127
        THEN ~nameRes[1].ok /\ nameRes[1].kind = "NotAscii"
        ELSE IF \E i \in DOMAIN raw : raw[i] \in AsciiWhitespace
        THEN ~nameRes[1].ok /\ nameRes[1].kind = "ContainsWhitespace"
        ELSE nameRes[1].ok /\ nameRes[1].name = raw

\* A name rejected for its whitespace, which follows an ASCII letter.
C5_Witness ==
    /\ nameRes # None /\ nameRes[1].kind = "ContainsWhitespace"
    /\ raw = <<97, 32>>

(***************************************************************************)
(* Claims about the codec (SpecCodec)                                      *)
(***************************************************************************)
\* Every text field of the descriptor is valid UTF-8.
ValidText(config) ==
    /\ Utf8Valid(config.program)
    /\ config.dir # None => Utf8Valid(config.dir[1])
    /\ \A i \in DOMAIN config.args : Utf8Valid(config.args[i])
    /\ \A i \in DOMAIN config.env_vars :
          /\ Utf8Valid(config.env_vars[i][1])
          /\ config.env_vars[i][2] # None => Utf8Valid(config.env_vars[i][2][1])

\* The descriptor read back from what decode returned.
Decoded == ConfigFromCommand(back[1].val)

\* C3, as stated: decode(encode(x)) equals x field for field, the ordered
\* sequence of environment edits included, even when a key repeats.
C3_RoundTripExact ==
    (back # None /\ ValidText(cfg)) => (back[1].ok /\ Decoded = cfg)

\* C3, amended: for x with valid text fields encode and decode succeed and
\* decode(encode(x)) has x's program, working directory and ordered arguments;
\* its environment edits are x's edits reduced to the last edit of each key,
\* in ascending key order (so they are x's own sequence exactly when x's keys
\* are distinct and ascending).
C3_RoundTripLastEditPerKey ==
    /\ (token # None /\ ValidText(cfg)) => token[1].ok
    /\ (back # None /\ ValidText(cfg)) =>
          /\ back[1].ok
          /\ Decoded.program = cfg.program
          /\ Decoded.dir = cfg.dir
          /\ Decoded.args = cfg.args
          /\ \A i \in 1..(Len(Decoded.env_vars) - 1) :
                BytesLess(Decoded.env_vars[i][1], Decoded.env_vars[i + 1][1])
          /\ {Decoded.env_vars[i][1] : i \in DOMAIN Decoded.env_vars}
                = {cfg.env_vars[i][1] : i \in DOMAIN cfg.env_vars}
          /\ \A i \in DOMAIN Decoded.env_vars :
                \E j \in DOMAIN cfg.env_vars :
                    /\ cfg.env_vars[j] = Decoded.env_vars[i]
                    /\ \A k \in (j + 1)..Len(cfg.env_vars) :
                          cfg.env_vars[k][1] # cfg.env_vars[j][1]

\* A descriptor that sets a key and then unsets the same key, with two
\* arguments and a directory, has been encoded and decoded.
C3_Witness ==
    /\ back # None /\ back[1].ok /\ ValidText(cfg)
    /\ Len(cfg.env_vars) = 2
    /\ cfg.env_vars[1][1] = cfg.env_vars[2][1]
    /\ cfg.env_vars[1][2] # None /\ cfg.env_vars[2][2] = None
    /\ Len(cfg.args) = 2 /\ cfg.dir # None

(***************************************************************************)
(* Claims about the gateway (Spec)                                         *)
(***************************************************************************)
Queried == last.op = "query_registration"

\* C1, as stated: register(t, n, inv) on a name whose registration is pending
\* fails with Duplicate and runs no child process.
C1_DuplicateRejected ==
    (last.op = "register" /\ last.prior.pending /\ last.result.kind # "Panic") =>
        (last.result.kind = "Duplicate" /\ last.calls = <<>>)

\* C1, amended: register(t, n, inv) on a name whose registration is pending
\* makes no check of its own: unless encoding inv panics it runs systemd-run,
\* the manager refuses the loaded name, and register fails with
\* CommandError(CommandFailed); in both cases the unit of n and its pending
\* registration are unchanged.
C1_CreateCallFails ==
    /\ []((last.op = "register" /\ last.prior.pending) =>
             \/ /\ last.result = Result("CommandError", <<"CommandFailed">>)
                /\ last.calls = <<"systemd-run">>
             \/ /\ last.result.kind = "Panic"
                /\ last.calls = <<>>)
    /\ [][\A n \in Names :
            (reg[n] # None /\ (reg'[n] # reg[n] \/ units'[n] # units[n])) =>
                ~(\E t \in Times, c \in Commands : Register(t, n, c))]_vars

\* A register on a pending name has run systemd-run and failed, and the
\* registration is still pending.
C1_Witness ==
    /\ last.op = "register" /\ last.prior.pending
    /\ last.calls = <<"systemd-run">>
    /\ last.result = Result("CommandError", <<"CommandFailed">>)
    /\ reg[last.name] # None

\* The time with the fraction of its second dropped.
WholeSeconds(t) == [t EXCEPT !.nanos = 0]

\* C2, as stated: while the registration (inv, T) of n is pending a returned
\* query_registration(n) has returned exactly (inv, T); deregister(n) on a
\* pending registration succeeds and leaves n not loaded; and
\* query_registration(n) on a unit that is not loaded fails with NotLoaded.
C2_QueryReturnsExactTime ==
    /\ [](/\ (Queried /\ reg[last.name] # None) =>
                /\ last.result.kind = "Ok"
                /\ last.result.val = <<reg[last.name][1].command, reg[last.name][1].time>>
          /\ (Queried /\ hostOk /\ last.prior.load = NotFoundState) =>
                last.result.kind = "NotLoaded")
    /\ [][\A n \in Names : (Deregister(n) /\ reg[n] # None) =>
              (last'.result.kind = "Ok" /\ units'[n] = NotFound(n))]_vars

\* C2, amended: as C2, but the time returned is T with the fraction of its
\* second dropped.
C2_QueryReturnsWholeSeconds ==
    /\ [](/\ (Queried /\ reg[last.name] # None) =>
                /\ last.result.kind = "Ok"
                /\ last.result.val =
                      <<reg[last.name][1].command, WholeSeconds(reg[last.name][1].time)>>
          /\ (Queried /\ hostOk /\ last.prior.load = NotFoundState) =>
                last.result.kind = "NotLoaded")
    /\ [][\A n \in Names : (Deregister(n) /\ reg[n] # None) =>
              (last'.result.kind = "Ok" /\ units'[n] = NotFound(n))]_vars

\* A query of a pending registration whose time has a fraction of a second
\* has returned.
C2_Witness ==
    /\ Queried /\ reg[last.name] # None
    /\ reg[last.name][1].time.nanos # 0
    /\ last.result.kind = "Ok"

\* C6, as stated: every operation that has returned to its caller has run
\* exactly one child process.
C6_OneCallPerOperation ==
    (last.op # "none" /\ last.result.kind # "Panic") => Len(last.calls) = 1

\* C6, amended: register and deregister run exactly one child process
\* (register none when encoding the command panics); query_registration runs
\* one show call per property, in the order LoadState, Description,
\* TimersCalendar, each after the one before has exited, and stops at the
\* first step that fails: one to three calls, three when it succeeds.  No
\* call is run twice.
C6_CallsPerOperation ==
    /\ last.op = "register" =>
          \/ last.calls = <<"systemd-run">>
          \/ last.calls = <<>> /\ last.result.kind = "Panic"
    /\ last.op = "deregister" => last.calls = <<"systemctl stop">>
    /\ Queried =>
          /\ last.calls \in {<<"show LoadState">>,
                             <<"show LoadState", "show Description">>,
                             <<"show LoadState", "show Description", "show TimersCalendar">>}
          /\ last.result.kind = "Ok" => Len(last.calls) = 3
          /\ last.result.kind = "NotLoaded" => Len(last.calls) = 1
    /\ pc = "Description" => cur.calls = <<"show LoadState">>
    /\ pc = "TimersCalendar" => cur.calls = <<"show LoadState", "show Description">>

\* A query that succeeded after three calls.
C6_Witness == Queried /\ last.result.kind = "Ok" /\ Len(last.calls) = 3

\* C7: query_registration(n) fails with NotLoaded, after the LoadState call
\* alone, whenever the manager reports a load state other than "loaded",
\* whatever the unit's description and calendar; and no step of
\* query_registration changes any unit.
C7_NotLoadedAndReadOnly ==
    /\ []((Queried /\ hostOk /\ last.prior.load # Loaded) =>
             (last.result.kind = "NotLoaded" /\ last.calls = <<"show LoadState">>))
    /\ [][units' # units =>
             ~((\E n \in Names : QueryLoadState(n)) \/ QueryDescription \/ QueryCalendar)]_vars

\* A query of a masked unit has failed with NotLoaded.
C7_Witness ==
    /\ Queried /\ last.prior.load = Masked /\ last.result.kind = "NotLoaded"
    /\ units[last.name].load = Masked

\* C8: when the text query_registration hands to the codec is no valid
\* token, it returns a decode error to its caller.
C8_DecodeErrorReturned ==
    (Queried /\ last.token # None /\ ~decode(last.token[1]).ok) =>
        last.result.kind = "DecodeError"

\* C9: deregister(n) on a unit that is not loaded fails with CommandError and
\* changes no unit; deregister(n) on a pending registration succeeds and
\* leaves n not loaded, so that a second deregister(n) fails.
C9_DeregisterNotIdempotent ==
    /\ []((last.op = "deregister" /\ last.prior.load = NotFoundState) =>
             last.result.kind = "CommandError")
    /\ [][\A n \in Names :
            /\ (Deregister(n) /\ units[n].load = NotFoundState) =>
                  (units' = units /\ last'.result.kind = "CommandError")
            /\ (Deregister(n) /\ reg[n] # None) =>
                  (last'.result.kind = "Ok" /\ units'[n].load = NotFoundState)]_vars

\* The stop call of a unit that is not loaded has run and failed.
C9_Witness ==
    /\ last.op = "deregister" /\ last.prior.load = NotFoundState
    /\ last.result = Result("CommandError", <<"CommandFailed">>)

\* The chars of a text.
Chars(s) == {s[i] : i \in DOMAIN s}

\* The text after the first char of s that is in the set sep, and after the
\* chars of sep that follow it when run is TRUE.
AfterFirst(s, sep, run) ==
    LET i == CHOOSE k \in DOMAIN s : s[k] \in sep /\ \A j \in 1..(k - 1) : s[j] \notin sep
        rest == SubSeq(s, i + 1, Len(s))
        skip == IF run
                THEN Cardinality({k \in DOMAIN rest : \A j \in 1..k : rest[j] \in sep})
                ELSE 0
    IN SubSeq(rest, skip + 1, Len(rest))

\* C10, as stated: the description is split at its first run of whitespace,
\* the text after the run is the token, and the step fails with ParseError
\* exactly when the description holds no whitespace.
C10_SplitAtWhitespaceRun ==
    (Queried /\ last.desc # None) =>
        IF Chars(last.desc[1]) \cap AsciiWhitespace = {}
        THEN last.token = None /\ last.result.kind = "ParseError"
        ELSE last.token = Some(AfterFirst(last.desc[1], AsciiWhitespace, TRUE))

\* C10, amended: the description is split at its first space character
\* (U+0020) and all the text after that one space is the token, so a tab
\* does not separate and further spaces stay at the head of the token; the
\* step fails with ParseError exactly when the description holds no space.
C10_SplitAtFirstSpace ==
    (Queried /\ last.desc # None) =>
        IF 32 \notin Chars(last.desc[1])
        THEN /\ last.token = None /\ last.result.kind = "ParseError"
             /\ last.calls = <<"show LoadState", "show Description">>
        ELSE /\ last.token = Some(AfterFirst(last.desc[1], {32}, FALSE))
             /\ ~(last.result.kind = "ParseError" /\ Len(last.calls) = 2)

\* A description of two parts with two spaces between them has been split.
C10_Witness ==
    /\ Queried /\ last.desc = Some(<<120, 32, 32>> \o EchoToken)
    /\ last.token = Some(<<32>> \o EchoToken)

=============================================================================
